---- MODULE Spec2Model ----
(***************************************************************************)
(* Concurrent dense matrix multiply (src/src/matrix.rs), the dot product   *)
(* it is built on (src/src/vector.rs) and the `*` operator over it.        *)
(*                                                                         *)
(* The calling thread (the scheduler/collector) and the worker threads are *)
(* separate processes.  Vectors and buffers are sequences; the source's    *)
(* 0-based index k is position k+1 of the sequence (see At).               *)
(***************************************************************************)
EXTENDS Integers, Sequences, FiniteSets, TLC

\* ------------------------------------------------------------------ bounds
\* Threads holding a clone of the AmapMetrics (besides its creator), and inc
\* calls per thread.
MaxMThreads == 2
MaxIncs == 2
\* Messages the producers of the demo send in total before they have to exit
\* (every producer sends at least one).
MaxMsgs == 5
\* Largest row and column count of an input matrix.
MaxDim == 2
\* How far the length of a matrix's storage may be from row*col (Matrix::new
\* does not validate it).
Slack == 1
\* Longest vector and largest element handed to dot_product on its own.
MaxVecLen == 4
MaxVecVal == 1

\* ------------------------------------------------------- program constants
NUM_THREADS == 4
\* T::default() of the scalar type.
Default == 0

\* Worker counts the protocol is run with; the build uses NUM_THREADS.
WorkerCounts == {1, 2, NUM_THREADS}

\* Storage of an input matrix is base, base + 1, base + 2, ... (all entries
\* distinct) for these bases.
Bases == {0, 1}

VARIABLES
    a, b,         \* the arguments of multiply: [data, row, col]
    n,            \* number of worker threads of this run
    pc,           \* position of the calling thread
    i, j,         \* the submission loops' indices
    wstate,       \* worker -> "none" | "idle" | "busy" | "dead" | "exited"
    queue,        \* worker -> its mpsc queue of Msg
    cur,          \* worker -> <<msg>> it is computing, or <<>>
    chan,         \* the oneshot channels in creation order: [state, out]
    receivers,    \* the recorded oneshot receivers (channel ids)
    data,         \* the output buffer
    rcv,          \* how many receivers the collection loop has consumed
    result,       \* what multiply returned
    mulOut,       \* what `a * b` produced from it
    writes,       \* how often the collector assigned each cell of data
    sendFailed,   \* channel ids of the tasks whose queue send failed
    done,         \* worker -> the messages it has computed, in order
    dotA, dotB, dotRes   \* a direct call of dot_product

\* src/src/metrics/amap.rs: an AmapMetrics shared by threads.
VARIABLES
    maps,         \* the allocated HashMaps (Arc targets): name -> counter
    handle,       \* thread -> the map its AmapMetrics points to, 0 before clone
    incs,         \* thread -> number of inc calls it has made
    lastInc,      \* the latest inc call: [thread, key, ok]
    okCalls,      \* key -> number of inc calls with it that returned Ok
    names         \* the metric_names given to new

metricsVars == <<maps, handle, incs, lastInc, okCalls, names>>

\* src/examples/thread1.rs: the producer/consumer demo.
VARIABLES
    dpc,          \* position of main
    spawned,      \* main's loop index: producers spawned so far
    mainTx,       \* whether main still holds its Sender
    prod,         \* producer -> "none" | "running" | "exited"
    dq,           \* the mpsc channel's queue
    sent,         \* producer -> the values it has sent, in order
    consumer,     \* "none" | "running" | "done"
    consumed      \* the messages the consumer has printed, in order

demoVars == <<dpc, spawned, mainTx, prod, dq, sent, consumer, consumed>>

extVars == <<metricsVars, demoVars>>

vars == <<a, b, n, pc, i, j, wstate, queue, cur, chan, receivers, data, rcv,
          result, mulOut, writes, sendFailed, dotA, dotB, dotRes, done, extVars>>

mulVars == <<a, b, n, pc, i, j, wstate, queue, cur, chan, receivers, data, rcv,
             result, mulOut, writes, sendFailed, done>>

\* ----------------------------------------------------------------- helpers
\* s[k] of the source (0-based).
At(s, k) == s[k + 1]

Fill(len, v) == [k \in 1..len |-> v]

Workers == 0..(n - 1)

\* ------------------------------------------------------------- vector.rs
NoValue == [ok |-> FALSE, value |-> Default]

RECURSIVE DotLoop(_, _, _, _)
DotLoop(va, vb, k, sum) ==
    IF k >= Len(va) THEN sum
    ELSE DotLoop(va, vb, k + 1, sum + At(va, k) * At(vb, k))

LenMismatchGt(va, vb) == Len(va) > Len(vb)
LenMismatch(va, vb) == Len(va) # Len(vb)

dot_product(va, vb) ==
    IF LenMismatch(va, vb) THEN NoValue
    ELSE [ok |-> TRUE, value |-> DotLoop(va, vb, 0, Default)]

\* ------------------------------------------------------------- matrix.rs
Matrix(d, r, c) == [data |-> d, row |-> r, col |-> c]

NoMatrix == Matrix(<<>>, 0, 0)
NoResult == [kind |-> "none", m |-> NoMatrix, err |-> ""]
Ok(m) == [kind |-> "ok", m |-> m, err |-> ""]
Err(e) == [kind |-> "err", m |-> NoMatrix, err |-> e]
Panicked == [kind |-> "panic", m |-> NoMatrix, err |-> ""]

\* multiply's shape check (the condition under which it goes on).
ShapeOkSwapped(x, y) == x.row = y.col
ShapeOk(x, y) == x.col = y.row

\* &a.data[i * a.col..(i + 1) * a.col]: the slice panics when its end is
\* past the storage.
RowInRange(x, r) == (r + 1) * x.col <= Len(x.data)
RowSlice(x, r) == SubSeq(x.data, r * x.col + 1, (r + 1) * x.col)

\* b.data[j..].iter().step_by(b.col): the slice panics when j is past the
\* storage; the iterator yields positions j, j + col, j + 2 col, ... within it.
ColInRange(y, c) == c <= Len(y.data)
ColCount(y, c) == (Len(y.data) - c + y.col - 1) \div y.col
ColDataNoStride(y, c) == SubSeq(y.data, c + 1, Len(y.data))
ColData(y, c) == [t \in 1..ColCount(y, c) |-> At(y.data, c + (t - 1) * y.col)]

CellIdxRowStride(r, c) == r * a.col + c
CellIdx(r, c) == r * b.col + c

MsgInput(idx, row, col) == [idx |-> idx, row |-> row, col |-> col]
Msg(input, sender) == [input |-> input, sender |-> sender]

MsgOutputArrival(msg, value) ==
    [idx |-> Cardinality({k \in 1..Len(chan) : chan[k].state \in {"full", "taken"}}),
     value |-> value]
MsgOutputFirst(msg, value) == [idx |-> msg.input.idx % n, value |-> value]
MsgOutput(msg, value) == [idx |-> msg.input.idx, value |-> value]

NoOutput == [idx |-> 0, value |-> Default]
OpenChan == [state |-> "open", out |-> NoOutput]
ClosedChan == [state |-> "closed", out |-> NoOutput]

RouteNext(idx) == (idx + 1) % n
RouteZero(idx) == 0
Route(idx) == idx % n

\* rx.recv() on a oneshot receiver: the reply, or an error once the sender
\* was dropped without sending.
RecvOrDefault(c) == [ok |-> TRUE, out |-> c.out]
Recv(c) == [ok |-> c.state # "closed", out |-> c.out]

\* The caller's locals (senders, receivers) are dropped when multiply returns
\* or unwinds.
ClosedOnOkOnly == pc = "returned" /\ result.kind = "ok"
CallerGone == pc \in {"returned", "panicked"}

\* Dropping a set of oneshot senders that never sent closes their channels.
DropSenders(ch, ids) ==
    [k \in 1..Len(ch) |->
        IF (k - 1) \in ids /\ ch[k].state = "open" THEN ClosedChan ELSE ch[k]]

\* ------------------------------------------------------------------ inputs
Ramp(len, base) == [k \in 1..len |-> base + (k - 1)]

Lens(r, c) == {l \in (r * c - Slack)..(r * c + Slack) : l >= 0}

Matrices ==
    {Matrix(Ramp(l, base), r, c) :
        <<r, c, l, base>> \in
            {t \in (0..MaxDim) \X (0..MaxDim) \X (0..(MaxDim * MaxDim + Slack))
                   \X Bases : t[3] \in Lens(t[1], t[2])}}

WellFormed(x) == Len(x.data) = x.row * x.col

Vectors ==
    UNION {[1..l -> 0..MaxVecVal] : l \in 0..MaxVecLen}

\* The other programs, not running.
MetricsIdle ==
    /\ maps = <<>>
    /\ handle = <<>>
    /\ incs = <<>>
    /\ lastInc = [thread |-> -1, key |-> "", ok |-> FALSE, before |-> <<>>]
    /\ okCalls = <<>>
    /\ names = {}

DemoIdle ==
    /\ dpc = "idle"
    /\ spawned = 0
    /\ mainTx = FALSE
    /\ prod = <<>>
    /\ dq = <<>>
    /\ sent = <<>>
    /\ consumer = "none"
    /\ consumed = <<>>

DotIdle ==
    /\ dotA = <<>>
    /\ dotB = <<>>
    /\ dotRes = [called |-> FALSE, ret |-> NoValue]

Init ==
    /\ a \in Matrices
    /\ b \in Matrices
    /\ n \in WorkerCounts
    /\ pc = "start"
    /\ i = 0
    /\ j = 0
    /\ wstate = [w \in Workers |-> "none"]
    /\ queue = [w \in Workers |-> <<>>]
    /\ cur = [w \in Workers |-> <<>>]
    /\ chan = <<>>
    /\ receivers = <<>>
    /\ data = <<>>
    /\ rcv = 0
    /\ result = NoResult
    /\ mulOut = [kind |-> "none", m |-> NoMatrix]
    /\ writes = <<>>
    /\ sendFailed = {}
    /\ done = [w \in Workers |-> <<>>]
    /\ DotIdle
    /\ MetricsIdle
    /\ DemoIdle

\* --------------------------------------------------- the calling thread
\* matrix.rs 88-91: the shape check.
CheckShape ==
    /\ pc = "start"
    /\ IF ShapeOk(a, b)
       THEN /\ pc' = "spawn"
            /\ UNCHANGED result
       ELSE /\ pc' = "returned"
            /\ result' = Err("ShapeMismatch")
    /\ UNCHANGED <<a, b, n, i, j, wstate, queue, cur, chan, receivers, data,
                   rcv, mulOut, writes, sendFailed, dotA, dotB, dotRes, done, extVars>>

\* matrix.rs 93-115: spawn the workers, allocate the buffer and the receivers.
Spawn ==
    /\ pc = "spawn"
    /\ wstate' = [w \in Workers |-> "idle"]
    /\ data' = Fill(a.row * b.col, Default)
    /\ writes' = Fill(a.row * b.col, 0)
    /\ receivers' = <<>>
    /\ i' = 0
    /\ j' = 0
    /\ pc' = IF a.row > 0 /\ b.col > 0 THEN "submit" ELSE "collect"
    /\ UNCHANGED <<a, b, n, queue, cur, chan, rcv, result, mulOut, sendFailed,
                   dotA, dotB, dotRes, done, extVars>>

\* matrix.rs 117-136: one iteration of the inner loop.
Submit ==
    /\ pc = "submit"
    /\ IF ~RowInRange(a, i) \/ ~ColInRange(b, j)
       THEN /\ pc' = "panicked"
            /\ result' = Panicked
            /\ UNCHANGED <<i, j, queue, chan, receivers, sendFailed>>
       ELSE LET idx == CellIdx(i, j)
                ch == Len(chan)
                msg == Msg(MsgInput(idx, RowSlice(a, i), ColData(b, j)), ch)
                w == Route(idx)
            IN  /\ IF wstate[w] = "dead"
                   THEN /\ sendFailed' = sendFailed \cup {ch}
                        /\ chan' = Append(chan, ClosedChan)
                        /\ UNCHANGED queue
                   ELSE /\ queue' = [queue EXCEPT ![w] = Append(@, msg)]
                        /\ chan' = Append(chan, OpenChan)
                        /\ UNCHANGED sendFailed
                /\ receivers' = Append(receivers, ch)
                /\ IF j + 1 < b.col
                   THEN /\ j' = j + 1
                        /\ UNCHANGED <<i, pc>>
                   ELSE IF i + 1 < a.row
                   THEN /\ i' = i + 1
                        /\ j' = 0
                        /\ UNCHANGED pc
                   ELSE /\ pc' = "collect"
                        /\ UNCHANGED <<i, j>>
                /\ UNCHANGED result
    /\ UNCHANGED <<a, b, n, wstate, cur, data, rcv, mulOut, writes,
                   dotA, dotB, dotRes, done, extVars>>

\* matrix.rs 138-145: one iteration of the collection loop; rx.recv() blocks
\* until the reply is there or its sender is gone.
Collect ==
    /\ pc = "collect"
    /\ rcv < Len(receivers)
    /\ LET ch == At(receivers, rcv)
           c == At(chan, ch)
       IN  /\ c.state \in {"full", "closed"}
           /\ IF ~Recv(c).ok
              THEN /\ pc' = "returned"
                   /\ result' = Err("RecvError")
                   /\ UNCHANGED <<data, writes, chan, rcv>>
              ELSE IF Recv(c).out.idx >= Len(data)
              THEN /\ pc' = "panicked"
                   /\ result' = Panicked
                   /\ chan' = [chan EXCEPT ![ch + 1].state = "taken"]
                   /\ UNCHANGED <<data, writes, rcv>>
              ELSE /\ data' = [data EXCEPT ![Recv(c).out.idx + 1] = Recv(c).out.value]
                   /\ writes' = [writes EXCEPT ![Recv(c).out.idx + 1] = @ + 1]
                   /\ chan' = [chan EXCEPT ![ch + 1].state = "taken"]
                   /\ rcv' = rcv + 1
                   /\ UNCHANGED <<pc, result>>
    /\ UNCHANGED <<a, b, n, i, j, wstate, queue, cur, receivers, mulOut,
                   sendFailed, dotA, dotB, dotRes, done, extVars>>

\* matrix.rs 147-151.
ReturnOk ==
    /\ pc = "collect"
    /\ rcv >= Len(receivers)
    /\ pc' = "returned"
    /\ result' = Ok(Matrix(data, a.row, b.col))
    /\ UNCHANGED <<a, b, n, i, j, wstate, queue, cur, chan, receivers, data,
                   rcv, mulOut, writes, sendFailed, dotA, dotB, dotRes, done, extVars>>

\* matrix.rs 172-174: `a * b` is multiply(&a, &b).expect(..).
expectOrDefault(res) ==
    IF res.kind = "ok" THEN [kind |-> "value", m |-> res.m]
    ELSE [kind |-> "value", m |-> NoMatrix]
expect(res) ==
    IF res.kind = "ok" THEN [kind |-> "value", m |-> res.m]
    ELSE [kind |-> "panic", m |-> NoMatrix]

mul ==
    /\ pc = "returned"
    /\ mulOut.kind = "none"
    /\ mulOut' = expect(result)
    /\ UNCHANGED <<a, b, n, pc, i, j, wstate, queue, cur, chan, receivers,
                   data, rcv, result, writes, sendFailed, dotA, dotB, dotRes, done, extVars>>

\* ------------------------------------------------------ a worker thread
\* matrix.rs 97: the worker takes the next message of its queue.
WorkerRecv(w) ==
    /\ wstate[w] = "idle"
    /\ queue[w] # <<>>
    /\ cur' = [cur EXCEPT ![w] = <<Head(queue[w])>>]
    /\ queue' = [queue EXCEPT ![w] = Tail(@)]
    /\ wstate' = [wstate EXCEPT ![w] = "busy"]
    /\ UNCHANGED <<a, b, n, pc, i, j, chan, receivers, data, rcv, result,
                   mulOut, writes, sendFailed, dotA, dotB, dotRes, done, extVars>>

\* matrix.rs 98-104: compute and reply.  An Err of dot_product leaves the
\* closure through `?`: the thread ends, and its message, its queue's
\* receiver and every message still queued are dropped.
WorkerCompute(w) ==
    /\ wstate[w] = "busy"
    /\ LET msg == cur[w][1]
           r == dot_product(msg.input.row, msg.input.col)
       IN  IF ~r.ok
           THEN /\ wstate' = [wstate EXCEPT ![w] = "dead"]
                /\ chan' = DropSenders(chan,
                                       {msg.sender} \cup
                                       {queue[w][k].sender : k \in 1..Len(queue[w])})
                /\ queue' = [queue EXCEPT ![w] = <<>>]
           ELSE /\ wstate' = [wstate EXCEPT ![w] = "idle"]
                /\ chan' = IF CallerGone
                           THEN chan
                           ELSE [chan EXCEPT ![msg.sender + 1] =
                                    [state |-> "full", out |-> MsgOutput(msg, r.value)]]
                /\ UNCHANGED queue
    /\ cur' = [cur EXCEPT ![w] = <<>>]
    /\ done' = [done EXCEPT ![w] = Append(@, cur[w][1])]
    /\ UNCHANGED <<a, b, n, pc, i, j, receivers, data, rcv, result, mulOut,
                   writes, sendFailed, dotA, dotB, dotRes, extVars>>

\* matrix.rs 97, 106: the queue is empty and every sender is gone.
WorkerExit(w) ==
    /\ wstate[w] = "idle"
    /\ queue[w] = <<>>
    /\ CallerGone
    /\ wstate' = [wstate EXCEPT ![w] = "exited"]
    /\ UNCHANGED <<a, b, n, pc, i, j, queue, cur, chan, receivers, data, rcv,
                   result, mulOut, writes, sendFailed, dotA, dotB, dotRes, done, extVars>>

Next ==
    \/ CheckShape
    \/ Spawn
    \/ Submit
    \/ Collect
    \/ ReturnOk
    \/ mul
    \/ \E w \in Workers : WorkerRecv(w)
    \/ \E w \in Workers : WorkerCompute(w)
    \/ \E w \in Workers : WorkerExit(w)

Spec == Init /\ [][Next]_vars

\* The calling thread and every worker are OS threads (thread::spawn): each
\* one that can take a step eventually takes it.  `a * b` in place of
\* multiply(&a, &b) is the caller's choice and is not forced.
SchedulerStep == CheckShape \/ Spawn \/ Submit \/ Collect \/ ReturnOk
WorkerStep(w) == WorkerRecv(w) \/ WorkerCompute(w) \/ WorkerExit(w)

SpecFair ==
    /\ Init
    /\ [][Next]_vars
    /\ WF_vars(SchedulerStep)
    /\ \A w \in 0..(NUM_THREADS - 1) : WF_vars(w \in Workers /\ WorkerStep(w))

\* ------------------------------------------- dot_product called directly
MulIdle ==
    /\ a = NoMatrix
    /\ b = NoMatrix
    /\ n = NUM_THREADS
    /\ pc = "start"
    /\ i = 0
    /\ j = 0
    /\ wstate = [w \in Workers |-> "none"]
    /\ queue = [w \in Workers |-> <<>>]
    /\ cur = [w \in Workers |-> <<>>]
    /\ chan = <<>>
    /\ receivers = <<>>
    /\ data = <<>>
    /\ rcv = 0
    /\ result = NoResult
    /\ mulOut = [kind |-> "none", m |-> NoMatrix]
    /\ writes = <<>>
    /\ sendFailed = {}
    /\ done = [w \in Workers |-> <<>>]

DotInit ==
    /\ MulIdle
    /\ dotA \in Vectors
    /\ dotB \in Vectors
    /\ dotRes = [called |-> FALSE, ret |-> NoValue]
    /\ MetricsIdle
    /\ DemoIdle

DotCall ==
    /\ ~dotRes.called
    /\ dotRes' = [called |-> TRUE, ret |-> dot_product(dotA, dotB)]
    /\ UNCHANGED <<mulVars, dotA, dotB, extVars>>

DotNext == DotCall

SpecDot == DotInit /\ [][DotNext]_vars

\* ------------------------------------------------- metrics/amap.rs
\* Names that may be registered, and the keys inc is called with.
RegNames == {"req", "err"}
AllKeys == RegNames \cup {"other"}

\* Thread 0 creates the AmapMetrics; the others work on clones of it.
MThreads == 0..MaxMThreads

\* amap.rs 22-30: every name mapped to AtomicI64::new(0).
new(metric_names) == [k \in metric_names |-> 0]

\* amap.rs 13-19: the clone's Arc points to the same HashMap.
Clone(h) == h

\* amap.rs 39: counter.fetch_add(1, Ordering::Relaxed), one atomic update.
StoreOne(v) == 1
FetchAdd(v) == v + 1

\* amap.rs 32-42: inc on the map an AmapMetrics points to.
IncMapInsert(m, key) ==
    IF key \in DOMAIN m
    THEN [ok |-> TRUE, map |-> [m EXCEPT ![key] = FetchAdd(@)]]
    ELSE [ok |-> TRUE, map |-> [k \in DOMAIN m \cup {key} |->
                                   IF k = key THEN 1 ELSE m[k]]]
IncMap(m, key) ==
    IF key \in DOMAIN m
    THEN [ok |-> TRUE, map |-> [m EXCEPT ![key] = FetchAdd(@)]]
    ELSE [ok |-> FALSE, map |-> m]

MetricsInit ==
    /\ MulIdle
    /\ DotIdle
    /\ DemoIdle
    /\ names \in SUBSET RegNames
    /\ maps = <<new(names)>>
    /\ handle = [t \in MThreads |-> IF t = 0 THEN 1 ELSE 0]
    /\ incs = [t \in MThreads |-> 0]
    /\ lastInc = [thread |-> -1, key |-> "", ok |-> FALSE, before |-> <<>>]
    /\ okCalls = [k \in AllKeys |-> 0]

clone(t) ==
    /\ handle[t] = 0
    /\ handle' = [handle EXCEPT ![t] = Clone(handle[0])]
    /\ UNCHANGED <<maps, incs, lastInc, okCalls, names, mulVars, dotA, dotB,
                   dotRes, demoVars>>

inc(t, key) ==
    /\ handle[t] # 0
    /\ incs[t] < MaxIncs
    /\ LET r == IncMap(maps[handle[t]], key)
       IN  /\ maps' = [maps EXCEPT ![handle[t]] = r.map]
           /\ lastInc' = [thread |-> t, key |-> key, ok |-> r.ok,
                          before |-> maps[handle[t]]]
           /\ okCalls' = IF r.ok THEN [okCalls EXCEPT ![key] = @ + 1] ELSE okCalls
    /\ incs' = [incs EXCEPT ![t] = @ + 1]
    /\ UNCHANGED <<handle, names, mulVars, dotA, dotB, dotRes, demoVars>>

MetricsNext ==
    \/ \E t \in MThreads : clone(t)
    \/ \E t \in MThreads, key \in AllKeys : inc(t, key)

SpecMetrics == MetricsInit /\ [][MetricsNext]_vars

\* ------------------------------------------------- examples/thread1.rs
NUM_PRODUCERS == 4
Producers == 0..(NUM_PRODUCERS - 1)

\* thread1.rs 39: the random value of a message.
Values == {0, 1}

\* thread1.rs 7-10.
DemoMsg(idx, value) == [idx |-> idx, value |-> value]

\* A producer owns its clone of the sender from its spawn to its return.
HoldsTx(p) == prod[p] \in {"send", "decide"}

\* Every sender of the channel has been dropped.
Disconnected == ~mainTx /\ \A p \in Producers : ~HoldsTx(p)

\* thread1.rs 24: the iterator over rx ends when a receive fails, that is when
\* the queue is empty and every sender has been dropped.
RecvEndsMainOnly == dq = <<>> /\ ~mainTx
RecvEnds == dq = <<>> /\ Disconnected

\* Messages sent so far, plus the one every producer that is spawned later or
\* is at the top of its loop is going to send.
Committed ==
    LET Count(p) == Len(sent[p]) + (IF prod[p] \in {"unspawned", "send"} THEN 1 ELSE 0)
        Sum[k \in 0..NUM_PRODUCERS] == IF k = 0 THEN 0 ELSE Sum[k - 1] + Count(k - 1)
    IN  Sum[NUM_PRODUCERS]

\* thread1.rs 23-27: rx lives in the consumer closure until its loop ends.
RxAlive == consumer # "done"

DemoInit ==
    /\ MulIdle
    /\ DotIdle
    /\ MetricsIdle
    /\ dpc = "spawn"
    /\ spawned = 0
    /\ mainTx = TRUE
    /\ prod = [p \in Producers |-> "unspawned"]
    /\ dq = <<>>
    /\ sent = [p \in Producers |-> <<>>]
    /\ consumer = "none"
    /\ consumed = [p \in Producers |-> <<>>]

idleRest == UNCHANGED <<mulVars, dotA, dotB, dotRes, metricsVars>>

\* thread1.rs 17-20: one iteration of the spawning loop.
SpawnProducer ==
    /\ dpc = "spawn"
    /\ spawned < NUM_PRODUCERS
    /\ prod' = [prod EXCEPT ![spawned] = "send"]
    /\ spawned' = spawned + 1
    /\ UNCHANGED <<dpc, mainTx, dq, sent, consumer, consumed>>
    /\ idleRest

\* thread1.rs 21.
DropTx ==
    /\ dpc = "spawn"
    /\ spawned = NUM_PRODUCERS
    /\ mainTx' = FALSE
    /\ dpc' = "consumer"
    /\ UNCHANGED <<spawned, prod, dq, sent, consumer, consumed>>
    /\ idleRest

\* thread1.rs 23-27.
SpawnConsumer ==
    /\ dpc = "consumer"
    /\ consumer' = "running"
    /\ dpc' = "join"
    /\ UNCHANGED <<spawned, mainTx, prod, dq, sent, consumed>>
    /\ idleRest

\* thread1.rs 29-34: join returns once the consumer has ended; then "Bye".
JoinAndBye ==
    /\ dpc = "join"
    /\ consumer = "done"
    /\ dpc' = "bye"
    /\ UNCHANGED <<spawned, mainTx, prod, dq, sent, consumer, consumed>>
    /\ idleRest

\* thread1.rs 39-40: send fails, and ends the producer, only without receiver.
ProducerSend(p) ==
    /\ prod[p] = "send"
    /\ \E value \in Values :
          IF RxAlive
          THEN /\ dq' = Append(dq, DemoMsg(p, value))
               /\ sent' = [sent EXCEPT ![p] = Append(@, value)]
               /\ prod' = [prod EXCEPT ![p] = "decide"]
          ELSE /\ prod' = [prod EXCEPT ![p] = "exited"]
               /\ UNCHANGED <<dq, sent>>
    /\ UNCHANGED <<dpc, spawned, mainTx, consumer, consumed>>
    /\ idleRest

\* thread1.rs 44-48, random_exit % 10 # 0: next iteration.
ProducerLoop(p) ==
    /\ prod[p] = "decide"
    /\ Committed < MaxMsgs
    /\ prod' = [prod EXCEPT ![p] = "send"]
    /\ UNCHANGED <<dpc, spawned, mainTx, dq, sent, consumer, consumed>>
    /\ idleRest

\* thread1.rs 44-50, random_exit % 10 = 0: break, return, tx dropped.
ProducerExit(p) ==
    /\ prod[p] = "decide"
    /\ prod' = [prod EXCEPT ![p] = "exited"]
    /\ UNCHANGED <<dpc, spawned, mainTx, dq, sent, consumer, consumed>>
    /\ idleRest

\* thread1.rs 24-26: one message received and printed.
Consume ==
    /\ consumer = "running"
    /\ dq # <<>>
    /\ consumed' = [consumed EXCEPT ![Head(dq).idx] = Append(@, Head(dq).value)]
    /\ dq' = Tail(dq)
    /\ UNCHANGED <<dpc, spawned, mainTx, prod, sent, consumer>>
    /\ idleRest

\* thread1.rs 24-27: the loop ends and the consumer returns.
ConsumerEnd ==
    /\ consumer = "running"
    /\ RecvEnds
    /\ consumer' = "done"
    /\ UNCHANGED <<dpc, spawned, mainTx, prod, dq, sent, consumed>>
    /\ idleRest

MainStep == SpawnProducer \/ DropTx \/ SpawnConsumer \/ JoinAndBye
ProducerStep(p) == ProducerSend(p) \/ ProducerLoop(p) \/ ProducerExit(p)
ConsumerStep == Consume \/ ConsumerEnd

DemoNext ==
    \/ MainStep
    \/ \E p \in Producers : ProducerStep(p)
    \/ ConsumerStep

SpecDemo == DemoInit /\ [][DemoNext]_vars

\* Every thread that can run keeps being scheduled.  A producer may still
\* choose to loop for ever: only its send is required to happen.
SpecDemoFair ==
    /\ DemoInit
    /\ [][DemoNext]_vars
    /\ WF_vars(MainStep)
    /\ WF_vars(ConsumerStep)
    /\ \A p \in Producers : WF_vars(ProducerSend(p))

\* ============================================================== properties
Finished == pc \in {"returned", "panicked"}

\* The product by the textbook triple loop, on the flat row-major storage.
RECURSIVE RefSum(_, _, _, _, _)
RefSum(x, y, r, c, t) ==
    IF t = 0 THEN 0
    ELSE RefSum(x, y, r, c, t - 1)
         + At(x.data, r * x.col + (t - 1)) * At(y.data, (t - 1) * y.col + c)

RefMultiply(x, y) ==
    Matrix([p \in 1..(x.row * y.col) |->
                RefSum(x, y, (p - 1) \div y.col, (p - 1) % y.col, x.col)],
           x.row, y.col)

\* C1: for well-formed a (r x k) and b (k x c), whenever multiply is over it
\* has returned Ok with the r x c matrix of the triple-loop product.
C1_Product ==
    (WellFormed(a) /\ WellFormed(b) /\ a.col = b.row /\ Finished)
        => result = Ok(RefMultiply(a, b))

\* C2: when a.col # b.row, multiply returns the shape error and nothing was
\* ever spawned, created or sent: no worker, no queue entry, no oneshot
\* channel, no receiver, no buffer.
C2_ShapeMismatchNoSideEffects ==
    a.col # b.row =>
        /\ pc \in {"start", "returned"}
        /\ pc = "returned" => result = Err("ShapeMismatch")
        /\ \A w \in Workers :
              wstate[w] = "none" /\ queue[w] = <<>> /\ cur[w] = <<>>
        /\ chan = <<>>
        /\ receivers = <<>>
        /\ data = <<>>
        /\ sendFailed = {}

C2_Witness ==
    a.col # b.row /\ pc = "returned" /\ result.kind = "err" /\ a.row = b.col

\* C3: when multiply has returned Ok, the collector has assigned every index
\* of the r*c buffer exactly once.
C3_WrittenExactlyOnce ==
    (pc = "returned" /\ result.kind = "ok") =>
        /\ Len(writes) = a.row * b.col
        /\ Len(result.m.data) = a.row * b.col
        /\ \A k \in 1..Len(writes) : writes[k] = 1

C3_Witness ==
    /\ pc = "returned"
    /\ result.kind = "ok"
    /\ a.row = MaxDim
    /\ b.col = MaxDim
    /\ a.col # b.col
    /\ n = 1

CellFails(x, y, idx) ==
    ~dot_product(RowSlice(x, idx \div y.col), ColData(y, idx % y.col)).ok

ScheduleFreeOutcome(x, y, nw) ==
    IF x.col # y.row THEN Err("ShapeMismatch")
    ELSE IF \E r \in 0..(x.row - 1), c \in 0..(y.col - 1) :
                ~RowInRange(x, r) \/ ~ColInRange(y, c)
    THEN Panicked
    ELSE IF \E idx \in 0..(x.row * y.col - 1) :
                \E k \in 0..idx : k % nw = idx % nw /\ CellFails(x, y, k)
    THEN Err("RecvError")
    ELSE Ok(Matrix([p \in 1..(x.row * y.col) |->
                        dot_product(RowSlice(x, (p - 1) \div y.col),
                                    ColData(y, (p - 1) % y.col)).value],
                   x.row, y.col))

\* C5: for given arguments and worker count, every interleaving of the
\* caller and the workers ends with the same value of multiply.
C5_Deterministic ==
    Finished => result = ScheduleFreeOutcome(a, b, n)

\* Replies are available out of submission order while a result is on its way.
C5_Witness ==
    /\ pc = "collect"
    /\ WellFormed(a) /\ WellFormed(b)
    /\ \E k1, k2 \in 1..Len(chan) :
          k1 < k2 /\ chan[k1].state = "open" /\ chan[k2].state = "full"

\* C6: with any worker count the call ends as the same protocol ends with a
\* single worker.
C6_WorkerCountIndependent ==
    Finished => result = ScheduleFreeOutcome(a, b, 1)

C6_Witness ==
    /\ pc = "returned"
    /\ result.kind = "ok"
    /\ n = NUM_THREADS
    /\ Len(result.m.data) = 1

\* C7: a worker never ends on a failed dot product: the only reply channels
\* ever closed without a reply are those of tasks that were not delivered.
C7_WorkerRepliesOnError ==
    /\ \A w \in Workers : wstate[w] # "dead"
    /\ \A k \in 1..Len(chan) : chan[k].state = "closed" => (k - 1) \in sendFailed

\* C8: when multiply returns, no worker has a task queued or in hand.
C8_TornDownAtReturn ==
    pc = "returned" =>
        \A w \in Workers : queue[w] = <<>> /\ wstate[w] # "busy"

\* C9: `a * b` yields the matrix multiply returned, panics when multiply
\* returned an error, and multiply itself answers a shape mismatch with an
\* error value, not a panic.
C9_MulOperator ==
    /\ mulOut.kind # "none" =>
          /\ pc = "returned"
          /\ result.kind = "ok" => mulOut = [kind |-> "value", m |-> result.m]
          /\ result.kind = "err" => mulOut.kind = "panic"
    /\ (a.col # b.row /\ Finished) => result.kind = "err"

C9_Witness ==
    mulOut.kind = "panic" /\ a.col # b.row /\ a.row = MaxDim /\ b.row = MaxDim

\* The sum of the element-wise products, by recursion on the length.
RECURSIVE RefDot(_, _)
RefDot(va, vb) ==
    IF Len(va) = 0 THEN 0
    ELSE RefDot(SubSeq(va, 1, Len(va) - 1), SubSeq(vb, 1, Len(va) - 1))
         + va[Len(va)] * vb[Len(va)]

\* C10: dot_product fails exactly when the lengths differ, and otherwise
\* returns the sum of the element-wise products (0 for two empty vectors).
C10_DotProduct ==
    dotRes.called =>
        /\ dotRes.ret.ok <=> Len(dotA) = Len(dotB)
        /\ dotRes.ret.ok => dotRes.ret.value = RefDot(dotA, dotB)
        /\ (dotA = <<>> /\ dotB = <<>>) => dotRes.ret = [ok |-> TRUE, value |-> 0]

C10_Witness ==
    dotRes.called /\ ~dotRes.ret.ok /\ Len(dotA) = 3 /\ Len(dotB) = 4

\* Every message a worker holds or has held: queued, in hand, computed.
Held(w) == queue[w] \o cur[w] \o done[w]
Serving(w) == done[w] \o cur[w] \o queue[w]
Computed(w) == {done[w][p].sender : p \in 1..Len(done[w])}

\* C14: the k-th recorded receiver is the k-th channel created; a reply in it
\* carries the tag k and comes from the worker the task was routed to, which
\* computed it once; no task is computed twice.
C14_PrivateSingleUseReply ==
    /\ Len(receivers) = Len(chan)
    /\ \A k \in 1..Len(receivers) : receivers[k] = k - 1
    /\ \A w \in Workers :
          LET h == Held(w)
          IN  \A p \in 1..Len(h) : h[p].sender = h[p].input.idx
    /\ \A w \in Workers :
          /\ \A p, q \in 1..Len(done[w]) :
                p # q => done[w][p].sender # done[w][q].sender
          /\ \A v \in Workers \ {w} : Computed(w) \cap Computed(v) = {}
    /\ \A k \in 1..Len(chan) :
          chan[k].state \in {"full", "taken"} =>
              /\ chan[k].out.idx = k - 1
              /\ k - 1 \in Computed((k - 1) % n)

C14_Witness ==
    /\ n = 2
    /\ Len(chan) = MaxDim * MaxDim
    /\ \A k \in 1..Len(chan) : chan[k].state = "taken"

C16_NoLengthMismatch ==
    (Len(a.data) = a.row * a.col /\ Len(b.data) = b.row * b.col /\ a.col = b.row) =>
        /\ \A w \in Workers :
              LET h == Held(w)
              IN  \A p \in 1..Len(h) :
                     /\ Len(h[p].input.row) = a.col
                     /\ Len(h[p].input.col) = a.col
        /\ \A w \in Workers : wstate[w] # "dead"
        /\ sendFailed = {}
        /\ \A k \in 1..Len(chan) : chan[k].state # "closed"
        /\ result.kind # "err"

C16_Witness ==
    /\ Len(a.data) = a.row * a.col
    /\ Len(b.data) = b.row * b.col
    /\ a.row = MaxDim /\ a.col = MaxDim /\ b.row = MaxDim /\ b.col = MaxDim
    /\ pc = "returned"
    /\ result.kind = "ok"

\* C17: for well-formed a (r x k) and b (k x c) with k = 0, r = 0 or c = 0,
\* multiply ends with Ok of the r x c matrix of defaults, and with r = 0 or
\* c = 0 no task was ever created.
C17_DegenerateShapes ==
    (/\ Len(a.data) = a.row * a.col
     /\ Len(b.data) = b.row * b.col
     /\ a.col = b.row
     /\ (a.col = 0 \/ a.row = 0 \/ b.col = 0)
     /\ Finished)
        => /\ result = Ok(Matrix(Fill(a.row * b.col, 0), a.row, b.col))
           /\ (a.row = 0 \/ b.col = 0) => chan = <<>>

\* C12: every spawned worker eventually terminates and stays terminated, on
\* every way multiply ends; a worker leaves its loop only with an empty queue,
\* nothing in hand and the queue's senders dropped.
C12_WorkersTerminate ==
    /\ [](\A w \in Workers :
            wstate[w] = "exited" =>
                queue[w] = <<>> /\ cur[w] = <<>> /\ pc \in {"returned", "panicked"})
    /\ <>[](\A w \in Workers :
              \/ wstate[w] \in {"dead", "exited"}
              \/ wstate[w] = "none" /\ a.col # b.row)

\* A worker went on after a reply it could not send (the receiver was gone)
\* and then left its loop.
C12_Witness ==
    \E w \in Workers :
        /\ wstate[w] = "exited"
        /\ \E p \in 1..Len(done[w]) : At(chan, done[w][p].sender).state = "open"

\* C13: under fair scheduling multiply eventually returns, Ok or Err.
C13_EventuallyReturns ==
    <>(pc = "returned" /\ result.kind \in {"ok", "err"})

\* C11: new maps every given name to 0; an inc with a registered name adds 1
\* to that counter alone and returns Ok; an inc with any other key returns an
\* error and changes nothing; the key set stays the one given to new.
C11_CounterMap ==
    /\ DOMAIN maps[1] = names
    /\ (\A t \in MThreads : incs[t] = 0) => \A k \in names : maps[1][k] = 0
    /\ lastInc.thread # -1 =>
          IF lastInc.key \in names
          THEN /\ lastInc.ok
               /\ maps[1][lastInc.key] = lastInc.before[lastInc.key] + 1
               /\ \A k \in names \ {lastInc.key} : maps[1][k] = lastInc.before[k]
          ELSE /\ ~lastInc.ok
               /\ maps[1] = lastInc.before

C11_Witness ==
    /\ names = RegNames
    /\ lastInc.key = "other"
    /\ ~lastInc.ok
    /\ maps[1]["req"] = 1
    /\ maps[1]["err"] = 0

\* C18: all clones point to the one map, and in every interleaving each
\* counter equals the number of inc calls for its name that returned Ok.
C18_NoLostIncrement ==
    /\ Len(maps) = 1
    /\ \A t \in MThreads : handle[t] \in {0, 1}
    /\ \A k \in names : maps[1][k] = okCalls[k]
    /\ \A k \in AllKeys \ names : okCalls[k] = 0

C18_Witness ==
    /\ \A t \in MThreads : handle[t] = 1 /\ incs[t] = MaxIncs
    /\ "req" \in names
    /\ maps[1]["req"] = (MaxMThreads + 1) * MaxIncs
    /\ lastInc.thread # 0

AllExited == \A p \in Producers : prod[p] = "exited"

IsPrefix(s, t) == Len(s) <= Len(t) /\ SubSeq(t, 1, Len(s)) = s

\* C19: the consumer loop has ended, and "Bye" is printed, only when all 4
\* producers have exited and main has dropped its sender, and it does end once
\* they have; by then every message sent has been consumed, and the messages
\* of one producer are consumed in the order it sent them.
C19_ConsumerEndsIffAllSendersGone ==
    /\ [](consumer = "done" =>
             /\ AllExited
             /\ ~mainTx
             /\ dq = <<>>
             /\ \A p \in Producers : consumed[p] = sent[p])
    /\ [](dpc = "bye" => consumer = "done")
    /\ [](\A p \in Producers : IsPrefix(consumed[p], sent[p]))
    /\ ((AllExited /\ ~mainTx) ~> (consumer = "done" /\ dpc = "bye"))

C19_Witness ==
    /\ dpc = "bye"
    /\ consumer = "done"
    /\ consumed[0] = <<0, 1>>
    /\ \A p \in Producers : Len(sent[p]) >= 1

====
